---- MODULE Spec2Model ----
(***************************************************************************)
(* A state-machine model of the bot deployment library                     *)
(* (Composer/packages/lib/bot-deploy/src/botProjectDeploy.ts): the deploy  *)
(* and create orchestrations of BotProjectDeploy, the LUIS publisher, the  *)
(* packager and the zip deployer; of buildDeploy, which deploy calls, and   *)
(* eject of the runtime templates                                          *)
(* (Composer/packages/plugins/runtimes/src/index.ts);                      *)
(* and of the CardTemplate component of the visual designer.               *)
(*                                                                         *)
(* JavaScript strings are sequences of text tokens (their concatenation is *)
(* the string), so that template literals, indexOf and prefixes are        *)
(* computed, not assumed.  The empty string is << >>.                      *)
(***************************************************************************)
EXTENDS Integers, Sequences, FiniteSets, TLC

VARIABLES
  pc,            \* position of the running deploy invocation
  args,          \* arguments of the running deploy invocation
  steps,         \* deploy steps started by the running invocation, in order
  done,          \* deploy steps that completed successfully, in order
  log,           \* events handed to this.logger by the running invocation
  exc,           \* the exception raised inside deploy's try block
  thrown,        \* the exception deploy handed to its caller
  projSettings,  \* content of the file at this.settingsPath
  buildSettings, \* content of <pathToArtifacts>/appsettings.deployment.json
  zipExists,     \* whether a file exists at this.zipPath
  luisConfigFiles, \* publishLuis: the luis.settings files found, in order
  fileIdx,       \* publishLuis: number of luis.settings files read so far
  luisAppIds,    \* publishLuis: the accumulated model key -> app id mapping
  keyOrder,      \* publishLuis: the keys of luisAppIds in insertion order
  luisEndpoint,  \* publishLuis: the endpoint parameter after defaulting
  luisCalls,     \* publishLuis: the external calls made, in order
  accountErr,    \* publishLuis: the error the account-list call failed with
  accountList,   \* publishLuis: the parsed account list
  account,       \* publishLuis: the account selected by getAccount
  assignIdx,     \* publishLuis: number of assignment POSTs that returned
  posts,         \* publishLuis: the assignment POSTs sent, in order
  tree,          \* packager: the files under the source directory
  outRel,        \* packager: the output path relative to the source directory
  streamOk,      \* packager: whether the output stream could be opened
  entries,       \* packager: the entries of the archive
  uploadHost,    \* zip deployer: the host the archive was posted to
  uploadErr,     \* zip deployer: the error the POST failed with
  config,        \* the instance's accessToken and subId
  tenantId,      \* the instance's tenantId field
  cpc,           \* position of the running create invocation
  cargs,         \* arguments of the running create invocation
  appId,         \* create: the application id in use
  ccalls,        \* create: the external calls made, in order
  clog,          \* events handed to this.logger by the running create
  cthrown,       \* the exception create handed to its caller
  resourceGroup, \* create: the name the resource group was created with
  templateParam, \* create: the template parameters
  validation,    \* create: the template-validation response
  operations,    \* create: the deployment operations listed
  opIdx,         \* create: number of failed operations reported so far
  responses,     \* create: what the deployment and bot service calls answered
  result,        \* create: the value returned by updateDeploymentJsonFile
  runtime,       \* the key of the runtime template of the instance (config.runtime)
  pathToArtifacts, \* deploy: the value the runtime's buildDeploy returned
  published,     \* the directories the runtime's buildDeploy wrote
  props,         \* card: the props the CardTemplate component was given
  view,          \* card: the elements the component rendered
  projFiles,     \* eject: the paths that exist in the project's file storage
  ejects         \* eject: the outcomes of the eject calls made, in order

deployVars == <<pc, args, steps, done, log, exc, thrown, projSettings, zipExists>>
luisVars == <<buildSettings, luisConfigFiles, fileIdx, luisAppIds, keyOrder,
              luisEndpoint, luisCalls, accountErr, accountList, account,
              assignIdx, posts>>
zipVars == <<tree, outRel, streamOk, entries>>
createVars == <<config, tenantId, cpc, cargs, appId, ccalls, clog, cthrown, resourceGroup,
                templateParam, validation, operations, opIdx, responses, result>>
buildVars == <<runtime, pathToArtifacts, published>>
cardVars == <<props, view>>
ejectVars == <<projFiles, ejects>>
deployAllVars == <<deployVars, luisVars, zipVars, uploadHost, uploadErr, buildVars>>
vars == <<deployVars, luisVars, zipVars, uploadHost, uploadErr, buildVars, createVars,
          cardVars, ejectVars>>

(***************************************************************************)
(* Bounds of the model.                                                    *)
(***************************************************************************)
MaxLuisFiles == 2   \* luis.settings files found in the build tree
MaxMsgLen == 2      \* tokens in an error body's message
MaxAccounts == 1    \* accounts in the retrieved account list

(***************************************************************************)
(* JavaScript values.                                                      *)
(***************************************************************************)
Undefined == <<"<undefined>">>
Truthy(v) == v # Undefined /\ v # << >>
\* a value inside a template literal
Str(v) == IF v = Undefined THEN <<"undefined">> ELSE v
Get(obj, k) == IF k \in DOMAIN obj THEN obj[k] ELSE Undefined
EmptyObject == [k \in {} |-> << >>]
Min(S) == CHOOSE x \in S : \A y \in S : x <= y
SeqsUpTo(S, n) == UNION {[1..m -> S] : m \in 0..n}
Range(s) == {s[i] : i \in DOMAIN s}
IsPrefix(p, s) == Len(p) <= Len(s) /\ SubSeq(s, 1, Len(p)) = p
\* String.prototype.indexOf: index of the first occurrence, -1 when none
IndexOf(s, needle) ==
  LET hits == {i \in 0..(Len(s) - Len(needle)) : SubSeq(s, i + 1, i + Len(needle)) = needle}
  IN IF hits = {} THEN -1 ELSE Min(hits)

\* Object.assign with the arguments' roles swapped: a key already there is kept
ObjectAssignFirstWins(target, source) ==
  [k \in DOMAIN target \cup DOMAIN source |->
     IF k \in DOMAIN target THEN target[k] ELSE source[k]]

\* Object.assign(target, source); an undefined source leaves target as it is
ObjectAssign(target, source) ==
  [k \in DOMAIN target \cup DOMAIN source |->
     IF k \in DOMAIN source THEN source[k] ELSE target[k]]

(***************************************************************************)
(* Errors.  An error carries its class, its message, the HTTP status code  *)
(* (0 when it is no HTTP error) and, for a request-promise failure, the    *)
(* response body in its `error` property.                                  *)
(***************************************************************************)
NoBody == [parses |-> FALSE, hasError |-> FALSE, message |-> Undefined, code |-> Undefined]
NoError == [kind |-> "none", msg |-> << >>, statusCode |-> 0, body |-> NoBody]
StepError(what) == [kind |-> "Error", msg |-> <<what, " failed">>, statusCode |-> 0, body |-> NoBody]
NewError(message) == [kind |-> "Error", msg |-> message, statusCode |-> 0, body |-> NoBody]
HttpError(status, body) ==
  [kind |-> "StatusCodeError", msg |-> <<"request failed">>, statusCode |-> status, body |-> body]
\* JSON.stringify(error, Object.getOwnPropertyNames(error))
JSONstringify(e) == <<"{\"kind\":\"", e.kind, "\",\"message\":\"">> \o e.msg \o <<"\"}">>

Event(status, message) == [status |-> status, message |-> message]
NoArgs == [name |-> << >>, environment |-> << >>, language |-> Undefined,
           hostname |-> Undefined, luisResource |-> Undefined]

(***************************************************************************)
(* Settings files.  A settings file is its `luis` record (hasLuis says     *)
(* whether the key is there) and its MicrosoftAppId.  A `luis` record maps *)
(* keys to strings; a key that is not in its domain reads as undefined.    *)
(***************************************************************************)
ModelKeyOrder == <<"m1", "m2">>
ModelKeys == Range(ModelKeyOrder)
Restrict(f, S) == [k \in S |-> f[k]]
Defined(full) == Restrict(full, {k \in DOMAIN full : full[k] # Undefined})
MkLuis(authoringKey, authoringRegion, region) ==
  Defined([authoringKey |-> authoringKey, authoringRegion |-> authoringRegion,
           region |-> region, endpointKey |-> <<"ek">>])
LuisRecords ==
  {MkLuis(ak, ar, r) : ak \in {Undefined, << >>, <<"key">>},
                       ar \in {Undefined, <<"westus">>},
                       r \in {Undefined, <<"eastus">>}}
MkSettings(hasLuis, luis, id) ==
  [hasLuis |-> hasLuis, luis |-> luis, MicrosoftAppId |-> id]
DeploySettings ==
  {MkSettings(FALSE, EmptyObject, Undefined)}
    \cup {MkSettings(TRUE, l, Undefined) : l \in LuisRecords}

\* the `luis` sub-objects of the generated luis.settings files
AppIdMaps ==
  {Defined([m1 |-> a, m2 |-> b]) : a \in {Undefined, <<"a1">>, <<"a2">>},
                                   b \in {Undefined, <<"a3">>}}
LuisSettingsFiles ==
  {[hasLuis |-> FALSE, luis |-> EmptyObject]}
    \cup {[hasLuis |-> TRUE, luis |-> m] : m \in AppIdMaps}

Names == {<<"mybot">>}
Environments == {<<"dev">>}
Hostnames == {Undefined, <<"myhost">>}
LuisResources == {Undefined, <<"res">>}

(***************************************************************************)
(* LUIS account API values.                                                *)
(***************************************************************************)
\* the account name publishLuis looks for
LuisAccountName(name, environment, luisResource) ==
  IF Truthy(luisResource) THEN luisResource
  ELSE Str(name) \o <<"-">> \o Str(environment) \o <<"-luis">>
UndefinedAccount == [AccountName |-> Undefined]
AccountNames ==
  {LuisAccountName(n, e, Undefined) : n \in Names, e \in Environments} \cup {<<"res">>}
AccountLists == SeqsUpTo({[AccountName |-> n] : n \in AccountNames}, MaxAccounts)
\* Array.prototype.find by AccountName: the first match, undefined when none
getAccount(accounts, filter) ==
  LET hits == {i \in DOMAIN accounts : accounts[i].AccountName = filter}
  IN IF hits = {} THEN UndefinedAccount ELSE accounts[Min(hits)]

TokenExpiryText == <<"access token expiry">>
MsgTokens == {"access token expiry", "The "}
Messages == SeqsUpTo(MsgTokens, MaxMsgLen)
ErrorBodies ==
  {NoBody, [parses |-> TRUE, hasError |-> FALSE, message |-> Undefined, code |-> Undefined]}
    \cup {[parses |-> TRUE, hasError |-> TRUE, message |-> m, code |-> <<"X">>] :
            m \in Messages \cup {Undefined}}
SyntaxError ==
  [kind |-> "SyntaxError", msg |-> <<"Unexpected token in JSON">>, statusCode |-> 0, body |-> NoBody]
RefreshHint ==
  <<", run az account get-access-token, then replace the accessToken in your configuration">>
\* the catch block around the account-list call: the error it throws
AccountListCatch(err) ==
  IF ~err.body.parses THEN SyntaxError
  ELSE IF err.body.hasError /\ Truthy(err.body.message)
            /\ IndexOf(err.body.message, TokenExpiryText) > 0
       THEN NewError(<<"Type: ">> \o Str(err.body.code) \o <<", Message: ">>
                       \o Str(err.body.message) \o RefreshHint)
       ELSE err

(***************************************************************************)
(* deploy: the orchestration.                                              *)
(***************************************************************************)
\* deploy with the packaging moved before the LUIS step
StepAfterZipFirst(step, publish) ==
  CASE step = "CleanPriorArtifact" -> "build"
    [] step = "ExternalBuild" -> "pack"
    [] step = "Package" -> "settings"
    [] step = "ReadSettings" -> IF publish THEN "luis_enter" ELSE "upload"
    [] step = "LuisPublish" -> "upload"
    [] step = "Upload" -> "returned"

\* deploy calling publishLuis whatever the settings hold
StepAfterAlwaysLuis(step, publish) ==
  CASE step = "CleanPriorArtifact" -> "build"
    [] step = "ExternalBuild" -> "settings"
    [] step = "ReadSettings" -> "luis_enter"
    [] step = "LuisPublish" -> "pack"
    [] step = "Package" -> "upload"
    [] step = "Upload" -> "returned"

\* where deploy goes after a step that completed
StepAfter(step, publish) ==
  CASE step = "CleanPriorArtifact" -> "build"
    [] step = "ExternalBuild" -> "settings"
    [] step = "ReadSettings" -> IF publish THEN "luis_enter" ELSE "pack"
    [] step = "LuisPublish" -> "pack"
    [] step = "Package" -> "upload"
    [] step = "Upload" -> "returned"

\* the values deploy reads from the settings file for publishLuis
LuisAuthoringKey(settings) == Get(settings.luis, "authoringKey")
LuisAuthoringRegion(settings) == Get(settings.luis, "region")
LuisEndpointKey(settings) == Get(settings.luis, "endpointKey")
LuisEndpointSetting(settings) == Get(settings.luis, "endpoint")
\* deploy's test for calling publishLuis
DeployPublishesLuis(settings) ==
  /\ settings.hasLuis
  /\ Truthy(LuisAuthoringKey(settings))
  /\ Truthy(LuisAuthoringRegion(settings))
\* publishLuis's own test
PublishLuisGuard(luisAuthoringKey, luisAuthoringRegion) ==
  Truthy(luisAuthoringKey) /\ Truthy(luisAuthoringRegion)

Logger(events) == log' = log \o events
Info(message) == Event("DEPLOY_INFO", message)
Throw(e) == exc' = e /\ pc' = "catch"
\* the locals of publishLuis, as they are outside a call
LuisLocalsReset ==
  /\ luisConfigFiles' = << >>
  /\ fileIdx' = 0
  /\ luisAppIds' = EmptyObject
  /\ keyOrder' = << >>
  /\ luisEndpoint' = Undefined
  /\ accountList' = << >>
  /\ account' = UndefinedAccount
  /\ assignIdx' = 0
LuisLocalsUnchanged ==
  UNCHANGED <<luisConfigFiles, fileIdx, luisAppIds, keyOrder, luisEndpoint,
              accountList, account, assignIdx>>

\* a caller invokes deploy (again, once the previous invocation has ended)
deploy(name, environment, hostname, luisResource) ==
  /\ pc \in {"idle", "returned", "thrown"}
  /\ pc' = "clean"
  /\ args' = [name |-> name, environment |-> environment, language |-> Undefined,
              hostname |-> hostname, luisResource |-> luisResource]
  /\ steps' = << >> /\ done' = << >> /\ log' = << >>
  /\ exc' = NoError /\ thrown' = NoError
  /\ LuisLocalsReset
  /\ luisCalls' = << >> /\ accountErr' = NoError /\ posts' = << >>
  /\ entries' = {} /\ uploadHost' = Undefined /\ uploadErr' = NoError
  /\ pathToArtifacts' = Undefined
  /\ UNCHANGED <<projSettings, buildSettings, zipExists, tree, outRel, streamOk>>
  /\ UNCHANGED <<createVars, runtime, published, cardVars, ejectVars>>

\* STEP 1: remove a zip left by a previous build
CleanPriorArtifact ==
  /\ pc = "clean"
  /\ steps' = Append(steps, "CleanPriorArtifact")
  /\ \/ /\ zipExists' = FALSE
        /\ done' = Append(done, "CleanPriorArtifact")
        /\ pc' = StepAfter("CleanPriorArtifact", FALSE)
        /\ UNCHANGED exc
     \/ /\ zipExists
        /\ Throw(StepError("fs.remove"))
        /\ UNCHANGED <<zipExists, done>>
  /\ UNCHANGED <<args, log, thrown, projSettings, luisVars, zipVars, uploadHost, uploadErr>>
  /\ UNCHANGED <<createVars, buildVars, cardVars, ejectVars>>

\* the runtime templates registered by the runtimes plugin, by key
RuntimeKeys == {"csharp-azurewebapp", "javescript-azurewebapp"}
\* this.projPath, as a sequence of path segments
ProjPath == <<"proj">>
\* path.join
PathJoin(a, b) == a \o b
\* buildDeploy of the runtime template `key`: the path it returns and the
\* directories it writes; '' is the path of no segments
buildDeploy(key, runtimePath) ==
  IF key = "csharp-azurewebapp"
  THEN LET publishFolder == PathJoin(runtimePath, <<"bin", "Release", "netcoreapp3.1">>)
           remoteBotPath == PathJoin(publishFolder, <<"ComposerDialogs">>)
       IN  [returns |-> publishFolder, writes |-> {publishFolder, remoteBotPath}]
  ELSE [returns |-> << >>, writes |-> {}]
\* whether buildDeploy of the template can reject: dotnet publish or the copy
\* may fail, the JS template runs no command
BuildCanFail(key) == key = "csharp-azurewebapp"

\* STEP 2: the runtime's buildDeploy
ExternalBuild ==
  /\ pc = "build"
  /\ steps' = Append(steps, "ExternalBuild")
  /\ \/ /\ pathToArtifacts' = buildDeploy(runtime, ProjPath).returns
        /\ published' = published \cup buildDeploy(runtime, ProjPath).writes
        /\ done' = Append(done, "ExternalBuild")
        /\ pc' = StepAfter("ExternalBuild", FALSE)
        /\ UNCHANGED exc
     \/ /\ BuildCanFail(runtime)
        /\ Throw(StepError("buildDeploy"))
        /\ UNCHANGED <<done, pathToArtifacts, published>>
  /\ UNCHANGED <<args, log, thrown, projSettings, zipExists, luisVars, zipVars,
                 uploadHost, uploadErr>>
  /\ UNCHANGED <<createVars, runtime, cardVars, ejectVars>>

\* STEP 3, first half: read the settings file and decide on LUIS
ReadSettings ==
  /\ pc = "settings"
  /\ steps' = Append(steps, "ReadSettings")
  /\ \/ /\ done' = Append(done, "ReadSettings")
        /\ pc' = StepAfter("ReadSettings", DeployPublishesLuis(projSettings))
        /\ args' = IF DeployPublishesLuis(projSettings) /\ ~Truthy(args.language)
                   THEN [args EXCEPT !.language = <<"en-us">>] ELSE args
        /\ UNCHANGED exc
     \/ /\ Throw(StepError("fs.readJSON"))
        /\ UNCHANGED <<done, args>>
  /\ UNCHANGED <<log, thrown, projSettings, zipExists, luisVars, zipVars, uploadHost, uploadErr>>
  /\ UNCHANGED <<createVars, buildVars, cardVars, ejectVars>>

\* a catch block that throws a new error made from the caught one
DeployCatchWrap ==
  /\ pc = "catch"
  /\ Logger(<<Event("DEPLOY_ERROR", JSONstringify(exc))>>)
  /\ thrown' = NewError(JSONstringify(exc))
  /\ pc' = "thrown"
  /\ UNCHANGED <<args, steps, done, exc, projSettings, zipExists, luisVars, zipVars,
                 uploadHost, uploadErr>>
  /\ UNCHANGED <<createVars, buildVars, cardVars, ejectVars>>

\* the catch block of deploy
DeployCatch ==
  /\ pc = "catch"
  /\ Logger(<<Event("DEPLOY_ERROR", JSONstringify(exc))>>)
  /\ thrown' = exc
  /\ pc' = "thrown"
  /\ UNCHANGED <<args, steps, done, exc, projSettings, zipExists, luisVars, zipVars,
                 uploadHost, uploadErr>>
  /\ UNCHANGED <<createVars, buildVars, cardVars, ejectVars>>

(***************************************************************************)
(* publishLuis, called by deploy.                                          *)
(***************************************************************************)
\* the keys of obj after Object.assign(obj, source), in insertion order
KeysAfterAssign(order, source) ==
  order \o SelectSeq(ModelKeyOrder, LAMBDA k : k \in DOMAIN source /\ k \notin Range(order))
\* `https://${luisAuthoringRegion}.api.cognitive.microsoft.com` unless given
DefaultEndpoint(endpoint, luisAuthoringRegion) ==
  IF Truthy(endpoint) THEN endpoint
  ELSE <<"https://">> \o Str(luisAuthoringRegion) \o <<".api.cognitive.microsoft.com">>
\* the base LUIS config object
LuisConfigBase(endpoint, luisEndpointKey, luisAuthoringKey, luisAuthoringRegion) ==
  [endpoint |-> endpoint, endpointKey |-> luisEndpointKey,
   authoringRegion |-> luisAuthoringRegion, authoringKey |-> luisAuthoringRegion]
\* the settings file after publishLuis has set its luis field
WithLuis(settings, luisConfig) ==
  [settings EXCEPT !.hasLuis = TRUE, !.luis = luisConfig]

\* entry of publishLuis: nothing happens without both authoring values
publishLuis ==
  /\ pc = "luis_enter"
  /\ steps' = Append(steps, "LuisPublish")
  /\ IF PublishLuisGuard(LuisAuthoringKey(projSettings), LuisAuthoringRegion(projSettings))
     THEN pc' = "luis_build" /\ UNCHANGED done
     ELSE pc' = StepAfter("LuisPublish", FALSE) /\ done' = Append(done, "LuisPublish")
  /\ UNCHANGED <<args, log, exc, thrown, projSettings, zipExists, luisVars, zipVars,
                 uploadHost, uploadErr>>
  /\ UNCHANGED <<createVars, buildVars, cardVars, ejectVars>>

\* load, build and write the LU models, then scan for the luis.settings files
LuBuild ==
  /\ pc = "luis_build"
  /\ luisCalls' = Append(luisCalls, "lubuild")
  /\ \/ /\ Logger(<<Info(<<"lubuild succeed">>)>>)
        /\ luisEndpoint' = DefaultEndpoint(LuisEndpointSetting(projSettings),
                                           LuisAuthoringRegion(projSettings))
        /\ \E files \in SeqsUpTo(LuisSettingsFiles, MaxLuisFiles) :
             luisConfigFiles' = files
        /\ pc' = "luis_read"
        /\ UNCHANGED <<exc, fileIdx, luisAppIds, keyOrder, accountList, account, assignIdx>>
     \/ /\ Throw(StepError("lubuild"))
        /\ LuisLocalsReset
        /\ UNCHANGED log
  /\ UNCHANGED <<args, steps, done, thrown, projSettings, zipExists, buildSettings,
                 accountErr, posts, zipVars, uploadHost, uploadErr>>
  /\ UNCHANGED <<createVars, buildVars, cardVars, ejectVars>>

\* one turn of the loop that reads the luis.settings files
ReadLuisSettingsFile ==
  /\ pc = "luis_read"
  /\ fileIdx < Len(luisConfigFiles)
  /\ LET luisSettings == luisConfigFiles[fileIdx + 1] IN
       /\ luisAppIds' = IF luisSettings.hasLuis
                        THEN ObjectAssign(luisAppIds, luisSettings.luis) ELSE luisAppIds
       /\ keyOrder' = IF luisSettings.hasLuis
                      THEN KeysAfterAssign(keyOrder, luisSettings.luis) ELSE keyOrder
  /\ fileIdx' = fileIdx + 1
  /\ UNCHANGED <<deployVars, buildSettings, luisConfigFiles, luisEndpoint, luisCalls,
                 accountErr, accountList, account, assignIdx, posts, zipVars, uploadHost, uploadErr>>
  /\ UNCHANGED <<createVars, buildVars, cardVars, ejectVars>>

\* build the LUIS config and write it into the deployment settings file
WriteLuisSettings ==
  /\ pc = "luis_read"
  /\ fileIdx = Len(luisConfigFiles)
  /\ luisCalls' = Append(luisCalls, "writeJson")
  /\ buildSettings' =
       WithLuis(buildSettings,
                ObjectAssign(LuisConfigBase(luisEndpoint, LuisEndpointKey(projSettings),
                                            LuisAuthoringKey(projSettings),
                                            LuisAuthoringRegion(projSettings)),
                             luisAppIds))
  /\ pc' = "luis_accounts"
  /\ LuisLocalsUnchanged
  /\ UNCHANGED <<args, steps, done, log, exc, thrown, projSettings, zipExists,
                 accountErr, posts, zipVars, uploadHost, uploadErr>>
  /\ UNCHANGED <<createVars, buildVars, cardVars, ejectVars>>

\* the account-list call and its catch block, then getAccount
GetAccountList ==
  /\ pc = "luis_accounts"
  /\ luisCalls' = Append(luisCalls, "azureaccounts.get")
  /\ \/ /\ \E list \in AccountLists :
             /\ accountList' = list
             /\ account' = getAccount(list, LuisAccountName(args.name, args.environment,
                                                            args.luisResource))
        /\ pc' = "luis_assign"
        /\ UNCHANGED <<exc, accountErr, luisConfigFiles, fileIdx, luisAppIds, keyOrder,
                       luisEndpoint, assignIdx>>
     \/ /\ \E body \in ErrorBodies :
             /\ accountErr' = HttpError(401, body)
             /\ Throw(AccountListCatch(HttpError(401, body)))
        /\ LuisLocalsReset
  /\ UNCHANGED <<args, steps, done, log, thrown, projSettings, zipExists, buildSettings,
                 posts, zipVars, uploadHost, uploadErr>>
  /\ UNCHANGED <<createVars, buildVars, cardVars, ejectVars>>

\* a loop that catches the error of a failed assignment and goes on with the
\* next application id
AssignAccountGoesOn ==
  /\ pc = "luis_assign"
  /\ assignIdx < Len(keyOrder)
  /\ LET luisAppId == luisAppIds[keyOrder[assignIdx + 1]] IN
       /\ posts' = Append(posts, [appId |-> luisAppId, body |-> account])
       /\ luisCalls' = Append(luisCalls, "azureaccounts.post")
       /\ \/ Logger(<<Info(<<"Assigning to luis app id: ">> \o luisAppId),
                      Info(<<"response">>)>>)
          \/ Logger(<<Info(<<"Assigning to luis app id: ">> \o luisAppId)>>)
       /\ assignIdx' = assignIdx + 1
       /\ UNCHANGED <<pc, exc, luisConfigFiles, fileIdx, luisAppIds, keyOrder,
                      luisEndpoint, accountList, account>>
  /\ UNCHANGED <<args, steps, done, thrown, projSettings, zipExists, buildSettings,
                 accountErr, zipVars, uploadHost, uploadErr>>
  /\ UNCHANGED <<createVars, buildVars, cardVars, ejectVars>>

\* one turn of the loop that assigns the account to each LUIS app
AssignAccount ==
  /\ pc = "luis_assign"
  /\ assignIdx < Len(keyOrder)
  /\ LET luisAppId == luisAppIds[keyOrder[assignIdx + 1]] IN
       /\ posts' = Append(posts, [appId |-> luisAppId, body |-> account])
       /\ luisCalls' = Append(luisCalls, "azureaccounts.post")
       /\ \/ /\ Logger(<<Info(<<"Assigning to luis app id: ">> \o luisAppId),
                         Info(<<"response">>)>>)
             /\ assignIdx' = assignIdx + 1
             /\ UNCHANGED <<pc, exc, luisConfigFiles, fileIdx, luisAppIds, keyOrder,
                            luisEndpoint, accountList, account>>
          \/ /\ Logger(<<Info(<<"Assigning to luis app id: ">> \o luisAppId)>>)
             /\ Throw(HttpError(500, NoBody))
             /\ LuisLocalsReset
  /\ UNCHANGED <<args, steps, done, thrown, projSettings, zipExists, buildSettings,
                 accountErr, zipVars, uploadHost, uploadErr>>
  /\ UNCHANGED <<createVars, buildVars, cardVars, ejectVars>>

\* the end of publishLuis
LuisPublishSuccess ==
  /\ pc = "luis_assign"
  /\ assignIdx = Len(keyOrder)
  /\ Logger(<<Info(<<"Luis Publish Success! ...">>)>>)
  /\ done' = Append(done, "LuisPublish")
  /\ pc' = StepAfter("LuisPublish", FALSE)
  /\ LuisLocalsReset
  /\ UNCHANGED <<args, steps, exc, thrown, projSettings, zipExists, buildSettings,
                 luisCalls, accountErr, posts, zipVars, uploadHost, uploadErr>>
  /\ UNCHANGED <<createVars, buildVars, cardVars, ejectVars>>

(***************************************************************************)
(* zipDirectory.  Paths are relative to the source directory, as sequences *)
(* of segments; Outside stands for an output path that is not under it.    *)
(***************************************************************************)
Outside == <<"..">>
RelPaths == {<<"index.js">>, <<"code.zip">>, <<"sub", "code.zip">>, <<"out.zip">>}
\* the ignore list of the glob: the pattern 'code.zip' matches that relative path only
Ignored(path) == path = <<"code.zip">>
\* glob('**/*', {cwd: source, dot: true, ignore: ['code.zip']})
Glob(files) == {f \in files : ~Ignored(f)}

\* STEP 4, first half: deploy calls zipDirectory, which opens the output stream
Package ==
  /\ pc = "pack"
  /\ steps' = Append(steps, "Package")
  /\ Logger(<<Info(<<"Packing up the bot service ...">>)>>)
  /\ \E opened \in BOOLEAN :
       /\ streamOk' = opened
       /\ zipExists' = (zipExists \/ opened)
  /\ pc' = "zip_glob"
  /\ UNCHANGED <<args, done, exc, thrown, projSettings, luisVars, tree, outRel, entries,
                 uploadHost, uploadErr>>
  /\ UNCHANGED <<createVars, buildVars, cardVars, ejectVars>>

\* the archive globs the source directory; the output file, opened a moment
\* before, may or may not be listed yet
ZipGlob ==
  /\ pc = "zip_glob"
  /\ \/ /\ \E listed \in BOOLEAN :
             /\ listed => zipExists
             /\ (zipExists /\ ~streamOk) => listed
             /\ entries' = Glob(tree \cup (IF listed THEN {outRel} \ {Outside} ELSE {}))
        /\ pc' = "zip_wait"
        /\ UNCHANGED exc
     \/ /\ Throw(StepError("archiver"))
        /\ UNCHANGED entries
  /\ UNCHANGED <<args, steps, done, log, thrown, projSettings, zipExists, luisVars,
                 tree, outRel, streamOk, uploadHost, uploadErr>>
  /\ UNCHANGED <<createVars, buildVars, cardVars, ejectVars>>

\* the output stream emits close: zipDirectory resolves
ZipClose ==
  /\ pc = "zip_wait"
  /\ streamOk
  /\ Logger(<<Info(<<"Packing Service Success!">>)>>)
  /\ done' = Append(done, "Package")
  /\ pc' = StepAfter("Package", FALSE)
  /\ UNCHANGED <<args, steps, exc, thrown, projSettings, zipExists, luisVars, zipVars,
                 uploadHost, uploadErr>>
  /\ UNCHANGED <<createVars, buildVars, cardVars, ejectVars>>

(***************************************************************************)
(* deployZip.                                                              *)
(***************************************************************************)
\* the host of the publish endpoint
DeployHost(name, env, hostname) ==
  IF Truthy(hostname) THEN hostname ELSE name \o <<"-">> \o env
TokenExpired ==
  NewError(<<"Token expired, please run az account get-access-token, ",
             "then replace the accessToken in your configuration">>)
\* a catch block that tests for status 401
DeployZipCatchUnauthorized(err) == IF err.statusCode = 401 THEN TokenExpired ELSE err

\* the catch block of deployZip: the error it throws
DeployZipCatch(err) == IF err.statusCode = 403 THEN TokenExpired ELSE err
UploadErrors == {HttpError(403, NoBody), HttpError(500, NoBody), StepError("network")}

\* STEP 5: deploy calls deployZip
Upload ==
  /\ pc = "upload"
  /\ steps' = Append(steps, "Upload")
  /\ uploadHost' = DeployHost(args.name, args.environment, args.hostname)
  /\ \/ /\ Logger(<<Info(<<"Publishing to Azure ...">>),
                    Info(<<"Retrieve publishing details ...">>),
                    Info(<<"response">>),
                    Event("DEPLOY_SUCCESS", <<"Publish To Azure Success!">>)>>)
        /\ done' = Append(done, "Upload")
        /\ pc' = StepAfter("Upload", FALSE)
        /\ UNCHANGED <<exc, uploadErr>>
     \/ /\ Logger(<<Info(<<"Publishing to Azure ...">>),
                    Info(<<"Retrieve publishing details ...">>)>>)
        /\ \E err \in UploadErrors : uploadErr' = err /\ Throw(DeployZipCatch(err))
        /\ UNCHANGED done
  /\ UNCHANGED <<args, thrown, projSettings, zipExists, luisVars, zipVars>>
  /\ UNCHANGED <<createVars, buildVars, cardVars, ejectVars>>

(***************************************************************************)
(* The CardTemplate component of the visual designer.  An element is its   *)
(* class name and its children; what a component renders is the sequence   *)
(* of the elements inside its container.                                   *)
(***************************************************************************)
JsNull == <<"<null>">>
\* values of the optional ReactNode props: absent, null, '' and texts
ReactNodes == {Undefined, JsNull, << >>, <<"text">>, <<"more">>}
Headers == {Undefined, << >>, <<"title">>}
CardProps == [header : Headers, body : ReactNodes, footer : ReactNodes]
NoProps == [header |-> Undefined, body |-> Undefined, footer |-> Undefined]
NotRendered == << >>
Element(className, children) == [className |-> className, children |-> children]
renderHeader(header) == Element("CardNode__Header", header)
renderBody(body) == Element("CardNode__Body", body)
renderFooter(footer) == Element("CardNode__Footer", footer)
renderSeparateline == Element("Separator", <<"ArrowLine">>)
\* array destructuring: the element at index i, undefined past the end
ItemAt(array, i) == IF i <= Len(array) THEN array[i] ELSE Undefined
\* a filter that drops undefined only
CardTemplateKeepsNull(header, body, footer) ==
  LET filtered == SelectSeq(<<body, footer>>, LAMBDA x : x # Undefined)
      displayedBody == ItemAt(filtered, 1)
      displayedFooter == ItemAt(filtered, 2)
      showFooter == displayedFooter # Undefined
  IN  <<renderHeader(header), renderBody(displayedBody)>>
        \o (IF showFooter THEN <<renderSeparateline>> ELSE << >>)
        \o (IF showFooter THEN <<renderFooter(footer)>> ELSE << >>)
\* the function component
CardTemplate(header, body, footer) ==
  LET filtered == SelectSeq(<<body, footer>>, LAMBDA x : x # Undefined /\ x # JsNull)
      displayedBody == ItemAt(filtered, 1)
      displayedFooter == ItemAt(filtered, 2)
      showFooter == displayedFooter # Undefined
  IN  <<renderHeader(header), renderBody(displayedBody)>>
        \o (IF showFooter THEN <<renderSeparateline>> ELSE << >>)
        \o (IF showFooter THEN <<renderFooter(footer)>> ELSE << >>)

\* the first render of the component with the props it was created with
Mount ==
  /\ view = NotRendered
  /\ view' = CardTemplate(props.header, props.body, props.footer)
  /\ UNCHANGED <<props, deployAllVars, createVars, ejectVars>>

\* a render with new props
Update(p) ==
  /\ view # NotRendered
  /\ props' = p
  /\ view' = CardTemplate(p.header, p.body, p.footer)
  /\ UNCHANGED <<deployAllVars, createVars, ejectVars>>

InitCardLocals == props = NoProps /\ view = NotRendered

(***************************************************************************)
(* eject of the runtime templates.  The project's file storage is the set  *)
(* of the paths that exist in it; a path is a sequence of segments.        *)
(***************************************************************************)
MaxEjects == 3          \* eject calls made on one project
\* project.dir
ProjectDir == <<"project">>
\* a path as a string
RECURSIVE PathStr(_)
PathStr(path) ==
  IF Len(path) <= 1 THEN path ELSE <<Head(path), "/">> \o PathStr(Tail(path))
\* const destPath = path.join(project.dir, 'runtime')
DestPath == PathJoin(ProjectDir, <<"runtime">>)
\* const schemaDstPath = path.join(project.dir, 'schemas')
SchemaDstPath == PathJoin(ProjectDir, <<"schemas">>)
\* const schemaFolderInRuntime = path.join(destPath, 'azurewebapp/schemas')
SchemaFolderInRuntime == PathJoin(DestPath, <<"azurewebapp", "schemas">>)
\* what copying the bundled runtime of the template into destPath creates
RuntimeTree(key) ==
  {DestPath, PathJoin(DestPath, <<"azurewebapp">>)}
    \cup (IF key = "csharp-azurewebapp" THEN {SchemaFolderInRuntime} ELSE {})
\* what copying the runtime's schemas creates: sdk.schema is left out when
\* the project has a schemas folder of its own
SchemaTree(files) ==
  {SchemaDstPath}
    \cup (IF SchemaDstPath \in files THEN {} ELSE {PathJoin(SchemaDstPath, <<"sdk.schema">>)})
AlreadyExists == NewError(<<"Runtime already exists at ">> \o PathStr(DestPath))
EjectResult(outcome, value, files) == [outcome |-> outcome, value |-> value, files |-> files]
\* an eject that copies without testing for the destination
EjectOutcomesOverwrites(key, files) ==
  LET copied == files \cup RuntimeTree(key)
      withSchemas == copied \cup SchemaTree(files)
  IN  IF key = "csharp-azurewebapp"
      THEN {EjectResult("returned", PathStr(DestPath), withSchemas \ {SchemaFolderInRuntime})}
      ELSE {EjectResult("returned", PathStr(DestPath), copied)}
\* the ways one eject call of the template can end on a project with these
\* files: what it returns or throws, and the files it leaves.  A copy or a
\* removal that rejects leaves what it had done so far.
EjectOutcomes(key, files) ==
  IF DestPath \in files
  THEN {EjectResult("thrown", AlreadyExists.msg, files)}
  ELSE LET copied == files \cup RuntimeTree(key)
           withSchemas == copied \cup SchemaTree(files)
           CopyFailed == {EjectResult("thrown", StepError("copyDir").msg, f) :
                            f \in {files, files \cup {DestPath}}}
       IN  IF key = "csharp-azurewebapp"
           THEN {EjectResult("returned", PathStr(DestPath),
                             withSchemas \ {SchemaFolderInRuntime})}
                  \cup CopyFailed
                  \cup {EjectResult("thrown", StepError("copyDir").msg, f) :
                          f \in {copied, copied \cup {SchemaDstPath}}}
                  \cup {EjectResult("thrown", StepError("rimraf").msg, withSchemas)}
           ELSE {EjectResult("returned", PathStr(DestPath), copied)} \cup CopyFailed

\* one call of this.runtime.eject on the project
eject ==
  /\ Len(ejects) < MaxEjects
  /\ \E r \in EjectOutcomes(runtime, projFiles) :
       /\ projFiles' = r.files
       /\ ejects' = Append(ejects, [outcome |-> r.outcome, value |-> r.value])
  /\ UNCHANGED <<deployVars, luisVars, zipVars, uploadHost, uploadErr, buildVars,
                 createVars, cardVars>>

InitEjectLocals == projFiles = {} /\ ejects = << >>

(***************************************************************************)
(* The locals of deploy before its first invocation.  The deploy           *)
(* specification is one BotProjectDeploy instance with the default zip     *)
(* path (outside the build output), invoked again and again.               *)
(***************************************************************************)
InitLocals ==
  /\ pc = "idle"
  /\ args = NoArgs
  /\ steps = << >> /\ done = << >> /\ log = << >>
  /\ exc = NoError /\ thrown = NoError
  /\ luisConfigFiles = << >> /\ fileIdx = 0 /\ luisAppIds = EmptyObject
  /\ keyOrder = << >> /\ luisEndpoint = Undefined /\ luisCalls = << >>
  /\ accountErr = NoError /\ accountList = << >> /\ account = UndefinedAccount
  /\ assignIdx = 0 /\ posts = << >>
  /\ streamOk = FALSE /\ entries = {} /\ uploadHost = Undefined /\ uploadErr = NoError
  /\ pathToArtifacts = Undefined /\ published = {}


(***************************************************************************)
(* create: provisioning.  create has no try block: an exception of any     *)
(* step goes straight to the caller.                                       *)
(***************************************************************************)
MaxOps == 2   \* operations in the deployment-operations list

Configs == [accessToken : {<< >>, <<"token">>}, subId : {<< >>, <<"sub">>}]
DefaultConfig == [accessToken |-> <<"token">>, subId |-> <<"sub">>]
CreateSettings == {MkSettings(FALSE, EmptyObject, a) : a \in {Undefined, << >>, <<"app-1">>}}
AppPasswords == {<< >>, <<"pwd">>}
NoCreateArgs == [name |-> << >>, location |-> << >>, environment |-> << >>,
                 appPassword |-> << >>, createAppInsights |-> FALSE]
BoolStr(b) == IF b THEN <<"true">> ELSE <<"false">>

pack(scope) == [value |-> scope]
\* the entries of output whose value is truthy, unwrapped
unpackObject(output) ==
  [k \in {x \in DOMAIN output : Truthy(output[x].value)} |-> output[k].value]
getDeploymentTemplateParam(id, appPwd, location, name, useAppInsights) ==
  [appId |-> pack(id), appSecret |-> pack(appPwd),
   appServicePlanLocation |-> pack(location), botId |-> pack(name),
   shouldCreateAuthoringResource |-> pack(BoolStr(TRUE)),
   shouldCreateLuisResource |-> pack(BoolStr(TRUE)),
   useAppInsights |-> pack(BoolStr(useAppInsights)),
   useCosmosDb |-> pack(BoolStr(TRUE)), useStorage |-> pack(BoolStr(TRUE))]
\* a group name that leaves the environment out
ResourceGroupNameOnly(name, environment) == Str(name)

\* the name of the resource group create provisions into
ResourceGroupName(name, environment) == Str(name) \o <<"-">> \o Str(environment)
\* registering a new application whenever a password is supplied
NeedsAppRegistrationOrPassword(id, appPassword) == ~Truthy(id) \/ Truthy(appPassword)

\* whether create registers a new application
NeedsAppRegistration(id, appPassword) == ~Truthy(id)
\* a test that only finds an undefined password missing
PasswordMissingStrict(appPassword) == appPassword = Undefined

\* whether create finds the app password missing
PasswordMissing(appPassword) == ~Truthy(appPassword)

NoValidation == [hasError |-> FALSE, message |-> Undefined, details |-> Undefined]
Validations ==
  {NoValidation,
   [hasError |-> TRUE, message |-> <<"InvalidTemplate">>, details |-> <<"detail-1", "detail-2">>],
   [hasError |-> TRUE, message |-> Undefined, details |-> Undefined]}
\* testing the error's message instead of the error
ValidationFailedWithMessage(v) == v.hasError /\ Truthy(v.message)

\* whether create treats the validation response as a failure
ValidationFailed(v) == v.hasError
\* the statuses a response of the SDK can carry
DeployStatuses == {200, 201, 400}
\* whether create treats the create-or-update response as a failure
DeploymentFailed(status) == status # 200
\* a test that only finds server errors
BotUpdateFailedOnServerError(status) == status >= 500

\* whether create treats the bot update response as a failure
BotUpdateFailed(status) == status # 200

\* deployment outputs: absent, or a mapping of {value}-wrapped entries
OutputMaps ==
  {Defined([o1 |-> a]) : a \in {Undefined}} \cup
  {[o1 |-> pack(v)] : v \in {<<"v1">>, << >>}}
NullResult == [isNull |-> TRUE, value |-> EmptyObject]
\* nothing answered yet: no deployment response, no bot fetched, no bot
\* update response, no outputs fetched
NoResponses ==
  [deployment |-> 0, botCreated |-> "none", botUpdateResult |-> 0,
   outputs |-> [fetched |-> FALSE, present |-> FALSE, value |-> EmptyObject]]
\* the record updateDeploymentJsonFile builds from the outputs
UpdateResult(outputs, id, appPwd) ==
  [isNull |-> FALSE,
   value |-> ObjectAssign(ObjectAssign(EmptyObject, unpackObject(outputs)),
                          [MicrosoftAppId |-> id, MicrosoftAppPassword |-> appPwd])]

\* a deployment operation: its statusMessage.error and its resource type
OpKinds == {"null", "noProperties", "undefined", "MissingRegistrationForLocation", "Other"}
ResourceTypes == {<<"Microsoft.Web/sites">>, <<"Microsoft.Insights/components">>}
Operations == [error : OpKinds, resourceType : ResourceTypes]
OperationLists == SeqsUpTo(Operations, MaxOps)
\* operations.filter(value => value?.properties?.statusMessage.error !== null)
FailedOperations(ops) == SelectSeq(ops, LAMBDA o : o.error # "null")
DeleteHint(group) == <<"+ To delete this resource group, run 'az group delete -g ">>
                       \o group \o <<" --no-wait'">>
TypeError ==
  [kind |-> "TypeError", msg |-> <<"Cannot read property 'code' of undefined">>,
   statusCode |-> 0, body |-> NoBody]

CLogger(events) == clog' = clog \o events
PInfo(message) == Event("PROVISION_INFO", message)
PError(message) == Event("PROVISION_ERROR", message)
CThrow(e) == cthrown' = e /\ cpc' = "thrown"
CCall(api) == ccalls' = Append(ccalls, api)

\* a caller invokes create (again, once the previous invocation has ended)
create(name, environment, appPassword, createAppInsights) ==
  /\ cpc \in {"idle", "returned", "thrown"}
  /\ cargs' = [name |-> name, location |-> <<"westus">>, environment |-> environment,
               appPassword |-> appPassword, createAppInsights |-> createAppInsights]
  /\ cpc' = IF ~Truthy(tenantId) THEN "tenant" ELSE "settings"
  /\ appId' = Undefined /\ ccalls' = << >> /\ clog' = << >> /\ cthrown' = NoError
  /\ resourceGroup' = Undefined /\ templateParam' = EmptyObject
  /\ validation' = NoValidation /\ operations' = << >> /\ opIdx' = 0
  /\ responses' = NoResponses /\ result' = NullResult
  /\ UNCHANGED <<config, tenantId, deployAllVars, cardVars, ejectVars>>

\* a lookup that does not test the access token and the subscription id
getTenantIdUnchecked ==
  /\ cpc = "tenant"
  /\ CCall("subscriptions.get")
  /\ \/ /\ tenantId' = <<"tenant-1">>
        /\ cpc' = "settings"
        /\ UNCHANGED cthrown
     \/ /\ \E detail \in {<<"No tenants found in the account.">>, <<"request failed">>} :
             CThrow(NewError(<<"Get Tenant Id Failed, details: ">> \o detail))
        /\ UNCHANGED tenantId
  /\ UNCHANGED <<config, cargs, appId, clog, resourceGroup, templateParam, validation,
                 operations, opIdx, result, deployAllVars, cardVars, ejectVars>>
  /\ UNCHANGED responses

\* this.tenantId = await this.getTenantId()
getTenantId ==
  /\ cpc = "tenant"
  /\ IF ~Truthy(config.accessToken)
     THEN /\ CThrow(NewError(<<"Error: Missing access token.">>))
          /\ UNCHANGED <<tenantId, ccalls>>
     ELSE IF ~Truthy(config.subId)
     THEN /\ CThrow(NewError(<<"Error: Missing subscription Id.">>))
          /\ UNCHANGED <<tenantId, ccalls>>
     ELSE /\ CCall("subscriptions.get")
          /\ \/ /\ tenantId' = <<"tenant-1">>
                /\ cpc' = "settings"
                /\ UNCHANGED cthrown
             \/ /\ \E detail \in {<<"No tenants found in the account.">>, <<"request failed">>} :
                     CThrow(NewError(<<"Get Tenant Id Failed, details: ">> \o detail))
                /\ UNCHANGED tenantId
  /\ UNCHANGED <<config, cargs, appId, clog, resourceGroup, templateParam, validation,
                 operations, opIdx, result, deployAllVars, cardVars, ejectVars>>
  /\ UNCHANGED responses

\* read the settings file for MicrosoftAppId
ReadCreateSettings ==
  /\ cpc = "settings"
  /\ \/ /\ appId' = projSettings.MicrosoftAppId
        /\ cpc' = "app"
        /\ UNCHANGED cthrown
     \/ /\ CThrow(StepError("fs.readJson"))
        /\ UNCHANGED appId
  /\ UNCHANGED <<config, tenantId, cargs, ccalls, clog, resourceGroup, templateParam,
                 validation, operations, opIdx, result, deployAllVars, cardVars, ejectVars>>
  /\ UNCHANGED responses

\* reuse the application id of the settings, or register a new application
EnsureAppRegistration ==
  /\ cpc = "app"
  /\ IF ~NeedsAppRegistration(appId, cargs.appPassword)
     THEN /\ CLogger(<<PInfo(<<"> Create App Id Success! ID: ">> \o Str(appId))>>)
          /\ cpc' = "group"
          /\ UNCHANGED <<appId, ccalls, cthrown>>
     ELSE IF PasswordMissing(cargs.appPassword)
     THEN /\ CLogger(<<PInfo(<<"App password is required">>)>>)
          /\ CThrow(NewError(<<"App password is required">>))
          /\ UNCHANGED <<appId, ccalls>>
     ELSE /\ CCall("applications.create")
          /\ \/ /\ appId' = <<"new-app">>
                /\ CLogger(<<PInfo(<<"> Creating App Registration ...">>),
                             PInfo(<<"appCreated">>),
                             PInfo(<<"> Create App Id Success! ID: ">> \o <<"new-app">>)>>)
                /\ cpc' = "group"
                /\ UNCHANGED cthrown
             \/ /\ CLogger(<<PInfo(<<"> Creating App Registration ...">>)>>)
                /\ CThrow(StepError("applications.create"))
                /\ UNCHANGED appId
  /\ UNCHANGED <<config, tenantId, cargs, resourceGroup, templateParam, validation,
                 operations, opIdx, result, deployAllVars, cardVars, ejectVars>>
  /\ UNCHANGED responses

\* create the resource group, then format the template parameters
CreateResourceGroup ==
  /\ cpc = "group"
  /\ resourceGroup' = ResourceGroupName(cargs.name, cargs.environment)
  /\ CCall("resourceGroups.createOrUpdate")
  /\ \/ /\ templateParam' = getDeploymentTemplateParam(appId, cargs.appPassword,
                                cargs.location, cargs.name, cargs.createAppInsights)
        /\ CLogger(<<PInfo(<<"> Creating resource group ...">>), PInfo(<<"rpres">>),
                     PInfo(<<"deploymentTemplateParam">>)>>)
        /\ cpc' = "validate"
        /\ UNCHANGED cthrown
     \/ /\ CLogger(<<PInfo(<<"> Creating resource group ...">>)>>)
        /\ CThrow(StepError("resourceGroups.createOrUpdate"))
        /\ UNCHANGED templateParam
  /\ UNCHANGED <<config, tenantId, cargs, appId, validation, operations, opIdx, result,
                 deployAllVars, cardVars, ejectVars>>
  /\ UNCHANGED responses

\* validate the template, and stop on a validation error
ValidateDeployment ==
  /\ cpc = "validate"
  /\ CCall("deployments.validate")
  /\ \/ \E v \in Validations :
          /\ validation' = v
          /\ IF ValidationFailed(v)
             THEN /\ CLogger(<<PInfo(<<"> Validating Azure deployment ...">>),
                               PInfo(<<"validation">>),
                               PError(<<"! Template is not valid with provided parameters. Review the log for more information.">>),
                               PError(<<"! Error: ">> \o Str(v.message)),
                               PError(DeleteHint(resourceGroup)),
                               Event("PROVISION_ERROR_DETAILS", v.details)>>)
                  /\ CThrow(NewError(<<"! Error: ">> \o Str(v.message)))
             ELSE /\ CLogger(<<PInfo(<<"> Validating Azure deployment ...">>),
                               PInfo(<<"validation">>)>>)
                  /\ cpc' = "deploy"
                  /\ UNCHANGED cthrown
     \/ /\ CLogger(<<PInfo(<<"> Validating Azure deployment ...">>)>>)
        /\ CThrow(StepError("deployments.validate"))
        /\ UNCHANGED validation
  /\ UNCHANGED <<config, tenantId, cargs, appId, resourceGroup, templateParam,
                 operations, opIdx, result, deployAllVars, cardVars, ejectVars>>
  /\ UNCHANGED responses

\* apply the template, and stop on a response status other than 200
CreateDeployment ==
  /\ cpc = "deploy"
  /\ CCall("deployments.createOrUpdate")
  /\ \/ \E status \in DeployStatuses :
          /\ responses' = [responses EXCEPT !.deployment = status]
          /\ IF DeploymentFailed(status)
             THEN /\ CLogger(<<PInfo(<<"> Deploying Azure services (this could take a while)...">>),
                               PInfo(<<"deployment">>),
                               PError(<<"! Template is not valid with provided parameters. Review the log for more information.">>),
                               PError(<<"! Error: ">> \o <<"undefined">>),
                               PError(DeleteHint(resourceGroup))>>)
                  /\ CThrow(NewError(<<"! Error: ">> \o <<"undefined">>))
             ELSE /\ CLogger(<<PInfo(<<"> Deploying Azure services (this could take a while)...">>),
                               PInfo(<<"deployment">>)>>)
                  /\ cpc' = IF cargs.createAppInsights THEN "insights" ELSE "outputs"
                  /\ UNCHANGED cthrown
     \/ /\ CLogger(<<PInfo(<<"> Deploying Azure services (this could take a while)...">>)>>)
        /\ CThrow(StepError("deployments.createOrUpdate"))
        /\ UNCHANGED responses
  /\ UNCHANGED <<config, tenantId, cargs, appId, resourceGroup, templateParam,
                 validation, operations, opIdx, result, deployAllVars, cardVars, ejectVars>>

\* link the Application Insights component to the bot registration: the
\* component and its API key
LinkAppInsights ==
  /\ cpc = "insights"
  /\ \/ /\ ccalls' = ccalls \o <<"components.get", "aPIKeys.create">>
        /\ CLogger(<<PInfo(<<"> Linking Application Insights settings to Bot Service ...">>),
                     PInfo(<<"> AppInsights AppId: ">>),
                     PInfo(<<"> AppInsights InstrumentationKey: ">>),
                     PInfo(<<"> AppInsights ApiKey: ">>)>>)
        /\ \E keys \in BOOLEAN : cpc' = IF keys THEN "bot" ELSE "outputs"
        /\ UNCHANGED cthrown
     \/ /\ \E failed \in {<<"components.get">>, <<"components.get", "aPIKeys.create">>} :
             /\ ccalls' = ccalls \o failed
             /\ CThrow(StepError(failed[Len(failed)]))
        /\ CLogger(<<PInfo(<<"> Linking Application Insights settings to Bot Service ...">>)>>)
  /\ UNCHANGED <<config, tenantId, cargs, appId, resourceGroup, templateParam,
                 validation, operations, opIdx, result, deployAllVars, cardVars, ejectVars>>
  /\ UNCHANGED responses

\* ... and the update of the bot registration
UpdateBot ==
  /\ cpc = "bot"
  /\ \/ /\ CCall("bots.get")
        /\ CThrow(StepError("bots.get"))
        /\ UNCHANGED <<clog, responses>>
     \/ /\ CCall("bots.get")
        /\ responses' = [responses EXCEPT !.botCreated = "noProperties"]
        /\ CLogger(<<Event("PROVISION_WARNING", <<"! The Bot doesn't have a keys properties to update.">>)>>)
        /\ cpc' = "outputs"
        /\ UNCHANGED cthrown
     \/ /\ ccalls' = ccalls \o <<"bots.get", "bots.update">>
        /\ \/ /\ CThrow(StepError("bots.update"))
              /\ responses' = [responses EXCEPT !.botCreated = "properties"]
              /\ UNCHANGED clog
           \/ \E status \in DeployStatuses :
                /\ responses' = [responses EXCEPT !.botCreated = "properties",
                                                  !.botUpdateResult = status]
                /\ IF BotUpdateFailed(status)
                   THEN /\ CLogger(<<PError(<<"! Something went wrong while trying to link Application Insights settings to Bot Service Result: ">>)>>)
                        /\ CThrow(NewError(<<"Linking Application Insights Failed.">>))
                   ELSE /\ CLogger(<<PInfo(<<"> Linking Application Insights settings to Bot Service Success!">>)>>)
                        /\ cpc' = "outputs"
                        /\ UNCHANGED cthrown
  /\ UNCHANGED <<config, tenantId, cargs, appId, resourceGroup, templateParam,
                 validation, operations, opIdx, result, deployAllVars, cardVars, ejectVars>>

\* updateDeploymentJsonFile: fetch the deployment outputs and build the result
updateDeploymentJsonFile ==
  /\ cpc = "outputs"
  /\ CCall("deployments.get")
  /\ \/ /\ \E outputs \in OutputMaps :
             /\ responses' = [responses EXCEPT
                                !.outputs = [fetched |-> TRUE, present |-> TRUE, value |-> outputs]]
             /\ result' = UpdateResult(outputs, appId, cargs.appPassword)
        /\ CLogger(<<PInfo(<<"updateResult">>)>>)
        /\ cpc' = "success"
        /\ UNCHANGED cthrown
     \/ /\ responses' = [responses EXCEPT
                           !.outputs = [fetched |-> TRUE, present |-> FALSE, value |-> EmptyObject]]
        /\ result' = NullResult
        /\ CLogger(<<PInfo(<<"updateResult">>)>>)
        /\ cpc' = "operations"
        /\ UNCHANGED cthrown
     \/ /\ CThrow(StepError("deployments.get"))
        /\ UNCHANGED <<result, clog, responses>>
  /\ UNCHANGED <<config, tenantId, cargs, appId, resourceGroup, templateParam,
                 validation, operations, opIdx, deployAllVars, cardVars, ejectVars>>

\* no outputs: list the deployment operations
ListOperations ==
  /\ cpc = "operations"
  /\ CCall("deploymentOperations.list")
  /\ \/ /\ \E ops \in OperationLists : operations' = ops
        /\ cpc' = "diagnose"
        /\ UNCHANGED <<clog, cthrown>>
     \/ /\ CLogger(<<PError(<<"! Deployment failed. Please refer to the log file for more information.">>)>>)
        /\ cpc' = "success"
        /\ UNCHANGED <<operations, cthrown>>
     \/ /\ CThrow(StepError("deploymentOperations.list"))
        /\ UNCHANGED <<operations, clog>>
  /\ UNCHANGED <<config, tenantId, cargs, appId, resourceGroup, templateParam,
                 validation, opIdx, result, deployAllVars, cardVars, ejectVars>>
  /\ UNCHANGED responses

\* a report without the case for MissingRegistrationForLocation
OperationReportGeneric(op) ==
  <<PError(<<"! Deployment failed for resource of type ">> \o op.resourceType \o <<".">>),
    PError(<<"! Code: ">> \o <<op.error>> \o <<".">>),
    PError(<<"! Message: ">> \o <<"message of ", op.error>> \o <<".">>)>>

\* what the forEach over the failed operations logs for one operation
OperationReport(op) ==
  IF op.error = "MissingRegistrationForLocation"
  THEN <<PError(<<"! Deployment failed for resource of type ">> \o op.resourceType
                  \o <<". This resource is not avaliable in the location provided.">>)>>
  ELSE IF op.error = "noProperties"
  THEN <<PError(<<"! Deployment failed for resource of type ">> \o <<"undefined">> \o <<".">>),
         PError(<<"! Code: ">> \o <<"undefined">> \o <<".">>),
         PError(<<"! Message: ">> \o <<"undefined">> \o <<".">>)>>
  ELSE <<PError(<<"! Deployment failed for resource of type ">> \o op.resourceType \o <<".">>),
         PError(<<"! Code: ">> \o <<op.error>> \o <<".">>),
         PError(<<"! Message: ">> \o <<"message of ", op.error>> \o <<".">>)>>

\* one turn of the forEach over the failed operations
ReportOperation ==
  /\ cpc = "diagnose"
  /\ opIdx < Len(FailedOperations(operations))
  /\ LET operation == FailedOperations(operations)[opIdx + 1] IN
       IF operation.error = "undefined"
       THEN CThrow(TypeError) /\ UNCHANGED <<clog, opIdx>>
       ELSE /\ CLogger(OperationReport(operation))
            /\ opIdx' = opIdx + 1
            /\ UNCHANGED <<cpc, cthrown>>
  /\ UNCHANGED <<config, tenantId, cargs, appId, ccalls, resourceGroup, templateParam,
                 validation, operations, result, deployAllVars, cardVars, ejectVars>>
  /\ UNCHANGED responses

\* the last log event of create, and its return
ProvisionSuccess ==
  /\ \/ cpc = "success"
     \/ cpc = "diagnose" /\ opIdx = Len(FailedOperations(operations))
  /\ CLogger(<<Event("PROVISION_SUCCESS", DeleteHint(resourceGroup))>>)
  /\ cpc' = "returned"
  /\ UNCHANGED <<config, tenantId, cargs, appId, ccalls, cthrown, resourceGroup,
                 templateParam, validation, operations, opIdx, result, deployAllVars, cardVars, ejectVars>>
  /\ UNCHANGED responses

(***************************************************************************)
(* The create specification: one BotProjectDeploy instance, invoked again  *)
(* and again.                                                              *)
(***************************************************************************)
InitCreateLocals ==
  /\ tenantId = << >>
  /\ cpc = "idle"
  /\ cargs = NoCreateArgs
  /\ appId = Undefined /\ ccalls = << >> /\ clog = << >> /\ cthrown = NoError
  /\ resourceGroup = Undefined /\ templateParam = EmptyObject
  /\ validation = NoValidation /\ operations = << >> /\ opIdx = 0
  /\ responses = NoResponses /\ result = NullResult

InitCreate ==
  /\ InitLocals
  /\ InitCreateLocals
  /\ InitCardLocals
  /\ InitEjectLocals
  /\ config \in Configs
  /\ runtime = "csharp-azurewebapp"
  /\ projSettings \in CreateSettings
  /\ buildSettings = projSettings
  /\ zipExists = FALSE
  /\ tree = {<<"index.js">>}
  /\ outRel = Outside

NextCreate ==
  \/ \E n \in Names, e \in Environments, p \in AppPasswords, i \in BOOLEAN :
       create(n, e, p, i)
  \/ getTenantId
  \/ ReadCreateSettings
  \/ EnsureAppRegistration
  \/ CreateResourceGroup
  \/ ValidateDeployment
  \/ CreateDeployment
  \/ LinkAppInsights
  \/ UpdateBot
  \/ updateDeploymentJsonFile
  \/ ListOperations
  \/ ReportOperation
  \/ ProvisionSuccess

SpecCreate == InitCreate /\ [][NextCreate]_vars

(***************************************************************************)
(* The deploy specification.                                               *)
(***************************************************************************)
Init ==
  /\ InitLocals
  /\ InitCreateLocals
  /\ InitCardLocals
  /\ InitEjectLocals
  /\ config = DefaultConfig
  /\ runtime = "csharp-azurewebapp"
  /\ projSettings \in DeploySettings
  /\ buildSettings = projSettings
  /\ zipExists \in BOOLEAN
  /\ tree = {<<"index.js">>}
  /\ outRel = Outside

Next ==
  \/ \E n \in Names, e \in Environments, h \in Hostnames, r \in LuisResources :
       deploy(n, e, h, r)
  \/ CleanPriorArtifact
  \/ ExternalBuild
  \/ ReadSettings
  \/ publishLuis
  \/ LuBuild
  \/ ReadLuisSettingsFile
  \/ WriteLuisSettings
  \/ GetAccountList
  \/ AssignAccount
  \/ LuisPublishSuccess
  \/ Package
  \/ ZipGlob
  \/ ZipClose
  \/ Upload
  \/ DeployCatch

Spec == Init /\ [][Next]_vars

(***************************************************************************)
(* The packager specification: deploy on settings without LUIS, for every  *)
(* configured zip path and every content of the build output.              *)
(***************************************************************************)
OutRels == {Outside} \cup (RelPaths \ {<<"index.js">>})

InitZip ==
  /\ InitLocals
  /\ InitCreateLocals
  /\ InitCardLocals
  /\ InitEjectLocals
  /\ config = DefaultConfig
  /\ runtime \in RuntimeKeys
  /\ projSettings = MkSettings(FALSE, EmptyObject, Undefined)
  /\ buildSettings = projSettings
  /\ zipExists \in BOOLEAN
  /\ outRel \in OutRels
  /\ tree \in SUBSET (RelPaths \ {outRel})

NextZip ==
  \/ \E n \in Names, e \in Environments, h \in Hostnames, r \in LuisResources :
       deploy(n, e, h, r)
  \/ CleanPriorArtifact
  \/ ExternalBuild
  \/ ReadSettings
  \/ Package
  \/ ZipGlob
  \/ ZipClose
  \/ Upload
  \/ DeployCatch

SpecZip == InitZip /\ [][NextZip]_vars

\* the packager under the scheduling of the event loop: the archive's glob and
\* the stream's close event are delivered whenever they are pending
SpecZipLive == SpecZip /\ WF_vars(ZipGlob) /\ WF_vars(ZipClose)

(***************************************************************************)
(* The bot specification: one BotProjectDeploy instance whose caller       *)
(* provisions and deploys the same bot, in any order, awaiting each call   *)
(* before the next and stopping at the first call that fails (an exception,*)
(* or a create that returns no result).                                    *)
(***************************************************************************)
CallerGoesOn ==
  /\ pc \in {"idle", "returned"}
  /\ cpc = "idle" \/ (cpc = "returned" /\ ~result.isNull)

InitBot ==
  /\ InitLocals
  /\ InitCreateLocals
  /\ InitCardLocals
  /\ InitEjectLocals
  /\ config = DefaultConfig
  /\ runtime = "csharp-azurewebapp"
  /\ projSettings \in CreateSettings
  /\ buildSettings = projSettings
  /\ zipExists = FALSE
  /\ tree = {<<"index.js">>}
  /\ outRel = Outside

NextBot ==
  \/ /\ CallerGoesOn
     /\ \E n \in Names, e \in Environments, p \in AppPasswords, i \in BOOLEAN :
          create(n, e, p, i)
  \/ getTenantId
  \/ ReadCreateSettings
  \/ EnsureAppRegistration
  \/ CreateResourceGroup
  \/ ValidateDeployment
  \/ CreateDeployment
  \/ LinkAppInsights
  \/ UpdateBot
  \/ updateDeploymentJsonFile
  \/ ListOperations
  \/ ReportOperation
  \/ ProvisionSuccess
  \/ /\ CallerGoesOn
     /\ \E n \in Names, e \in Environments, h \in Hostnames, r \in LuisResources :
          deploy(n, e, h, r)
  \/ CleanPriorArtifact
  \/ ExternalBuild
  \/ ReadSettings
  \/ Package
  \/ ZipGlob
  \/ ZipClose
  \/ Upload
  \/ DeployCatch

SpecBot == InitBot /\ [][NextBot]_vars

(***************************************************************************)
(* The card specification: a CardTemplate component created with any props *)
(* and rendered again with any props.                                      *)
(***************************************************************************)
InitCard ==
  /\ InitLocals
  /\ InitCreateLocals
  /\ config = DefaultConfig
  /\ runtime = "csharp-azurewebapp"
  /\ projSettings = MkSettings(FALSE, EmptyObject, Undefined)
  /\ buildSettings = projSettings
  /\ zipExists = FALSE
  /\ tree = {<<"index.js">>}
  /\ outRel = Outside
  /\ props \in CardProps
  /\ view = NotRendered
  /\ InitEjectLocals

NextCard ==
  \/ Mount
  \/ \E p \in CardProps : Update(p)

SpecCard == InitCard /\ [][NextCard]_vars

(***************************************************************************)
(* The eject specification: eject calls, one after the other, of either    *)
(* runtime template on a project with or without a runtime folder and a    *)
(* schemas folder of its own.                                              *)
(***************************************************************************)
ProjectFiles ==
  LET sdkSchema == PathJoin(SchemaDstPath, <<"sdk.schema">>) IN
    {{PathJoin(ProjectDir, <<"main.dialog">>)} \cup extra :
       extra \in {e \in SUBSET {DestPath, SchemaDstPath, sdkSchema} :
                    sdkSchema \in e => SchemaDstPath \in e}}

InitEject ==
  /\ InitLocals
  /\ InitCreateLocals
  /\ InitCardLocals
  /\ config = DefaultConfig
  /\ runtime \in RuntimeKeys
  /\ projSettings = MkSettings(FALSE, EmptyObject, Undefined)
  /\ buildSettings = projSettings
  /\ zipExists = FALSE
  /\ tree = {<<"index.js">>}
  /\ outRel = Outside
  /\ projFiles \in ProjectFiles
  /\ ejects = << >>

NextEject == eject

SpecEject == InitEject /\ [][NextEject]_vars

(***************************************************************************)
(* Properties of deploy.                                                   *)
(***************************************************************************)
\* the steps of a complete deploy, with or without the LUIS step
DeployOrder(publish) ==
  <<"CleanPriorArtifact", "ExternalBuild", "ReadSettings">>
    \o (IF publish THEN <<"LuisPublish">> ELSE << >>) \o <<"Package", "Upload">>

\* C1: the steps of a deploy start in the order CleanPriorArtifact,
\* ExternalBuild, (settings read,) optional LuisPublish, Package, Upload; a
\* step starts only when every step before it has completed, no step runs
\* twice, and a deploy that returns has completed them all.
C1_StepsInOrder ==
  /\ \E publish \in BOOLEAN : IsPrefix(steps, DeployOrder(publish))
  /\ IsPrefix(done, steps)
  /\ Len(steps) <= Len(done) + 1
  /\ pc = "returned" => done = steps /\ \E publish \in BOOLEAN : steps = DeployOrder(publish)
C1_Witness == pc = "returned" /\ steps = DeployOrder(TRUE)

\* The states of a failed deploy: the failing step is the last one started,
\* the catch block has the error the step raised, and once it has run the log
\* ends with the only DEPLOY_ERROR event, there is no DEPLOY_SUCCESS event,
\* and the error thrown to the caller is the one caught.
C2_AbortInvariant ==
  LET EventsOf(events, status) == {i \in DOMAIN events : events[i].status = status} IN
  /\ exc # NoError => pc \in {"catch", "thrown"} /\ Len(steps) = Len(done) + 1
  /\ pc = "catch" => exc # NoError /\ EventsOf(log, "DEPLOY_ERROR") = {}
  /\ pc # "thrown" => thrown = NoError
  /\ pc = "thrown" =>
       /\ exc # NoError
       /\ thrown = exc
       /\ EventsOf(log, "DEPLOY_ERROR") = {Len(log)}
       /\ log[Len(log)].message = JSONstringify(exc)
       /\ EventsOf(log, "DEPLOY_SUCCESS") = {}
\* C2: when a step of deploy throws, no later step starts, exactly one
\* DEPLOY_ERROR event is logged and it carries the serialized exception, no
\* DEPLOY_SUCCESS event is logged, the caller gets the very error the step
\* raised, and the catch block only logs and rethrows: it starts no step
\* again and undoes none (steps, files, archive and requests stay as they are).
C2_AbortOnThrow ==
  /\ []C2_AbortInvariant
  /\ [][pc = "catch" =>
          /\ pc' = "thrown"
          /\ UNCHANGED <<steps, done, buildSettings, zipExists, posts, entries,
                         uploadHost, luisCalls>>]_vars
C2_Witness ==
  /\ pc = "thrown"
  /\ steps = DeployOrder(TRUE)
  /\ thrown = TokenExpired

\* C3: on a settings file without a luis key deploy never calls
\* publishLuis: no LU build, no rewrite of the deployment settings, no
\* account call, and Package is the step after the settings read.
C3_NoLuisKeySkipsPublish ==
  ~projSettings.hasLuis =>
    /\ "LuisPublish" \notin Range(steps)
    /\ luisCalls = << >>
    /\ posts = << >>
    /\ buildSettings = projSettings
    /\ Len(steps) > 3 => steps[4] = "Package"
C3_Witness == ~projSettings.hasLuis /\ pc = "returned"

\* C4: on a settings file whose luis record has the documented shape, with
\* a non-empty authoringKey and a non-empty authoringRegion, a deploy that
\* reaches Package has published to LUIS before.
C4_DocumentedShapePublishes ==
  (/\ projSettings.hasLuis
   /\ Truthy(Get(projSettings.luis, "authoringKey"))
   /\ Truthy(Get(projSettings.luis, "authoringRegion"))
   /\ "Package" \in Range(steps))
    => "LuisPublish" \in Range(done) /\ "lubuild" \in Range(luisCalls)

\* C5: the write of the deployment settings by a publish keeps every model
\* key that the file's luis record held before that publish.
C5_PublishKeepsKnownAppIds ==
  [][pc = "luis_read" /\ pc' = "luis_accounts" =>
       \A k \in ModelKeys \cap DOMAIN buildSettings.luis : k \in DOMAIN buildSettings'.luis]_vars

\* C6: the archive holds no entry at its own output path.
C6_ArchiveExcludesOutput == outRel \notin entries

\* C7: the mapping accumulated from the luis.settings files read so far has
\* exactly the keys of their luis objects, each with the value of the last
\* file that has the key; the settings are written once all files are read.
C7_MergedAppIds ==
  /\ DOMAIN luisAppIds \subseteq ModelKeys
  /\ fileIdx <= Len(luisConfigFiles)
  /\ pc \in {"luis_accounts", "luis_assign"} => fileIdx = Len(luisConfigFiles)
  /\ \A k \in ModelKeys :
       LET holders == {i \in 1..fileIdx : /\ luisConfigFiles[i].hasLuis
                                          /\ k \in DOMAIN luisConfigFiles[i].luis}
           Max(S) == CHOOSE x \in S : \A y \in S : x >= y
       IN IF holders = {} THEN k \notin DOMAIN luisAppIds
          ELSE /\ k \in DOMAIN luisAppIds
               /\ luisAppIds[k] = luisConfigFiles[Max(holders)].luis[k]
C7_Witness ==
  /\ pc = "luis_accounts"
  /\ Len(luisConfigFiles) = 2
  /\ luisConfigFiles[1].luis = [m1 |-> <<"a1">>, m2 |-> <<"a3">>]
  /\ luisConfigFiles[2].luis = [m1 |-> <<"a2">>]
  /\ luisAppIds = [m1 |-> <<"a2">>, m2 |-> <<"a3">>]

\* C10: when the account-list call fails with a JSON body, publishLuis
\* throws the `Type: <code>, Message: <message>` error if the body's
\* error.message contains the token-expiry text (at its beginning too), and
\* rethrows the original error otherwise.
C10_TokenExpiryRethrown ==
  (accountErr # NoError /\ accountErr.body.parses) =>
    IF /\ accountErr.body.hasError
       /\ Truthy(accountErr.body.message)
       /\ IndexOf(accountErr.body.message, TokenExpiryText) >= 0
    THEN /\ exc.kind = "Error"
         /\ IsPrefix(<<"Type: ">> \o Str(accountErr.body.code) \o <<", Message: ">>
                       \o accountErr.body.message, exc.msg)
    ELSE exc = accountErr

(***************************************************************************)
(* Properties of create.                                                   *)
(***************************************************************************)
\* C8: when the settings hold a non-empty MicrosoftAppId, create makes no
\* application-registration call whatever the app password, and that id is
\* the appId of the template parameters and of the returned record.
C8_ExistingAppIdReused ==
  Truthy(projSettings.MicrosoftAppId) =>
    /\ "applications.create" \notin Range(ccalls)
    /\ cpc \in {"group", "validate", "deploy", "insights", "bot", "outputs", "operations",
                "diagnose", "success", "returned"} => appId = projSettings.MicrosoftAppId
    /\ "appId" \in DOMAIN templateParam =>
         templateParam.appId = pack(projSettings.MicrosoftAppId)
    /\ ~result.isNull => result.value.MicrosoftAppId = projSettings.MicrosoftAppId
C8_Witness ==
  /\ Truthy(projSettings.MicrosoftAppId)
  /\ Truthy(cargs.appPassword)
  /\ cpc = "returned"
  /\ ~result.isNull

\* C9: when the validation response has an error, create throws without
\* calling create-or-update or any later API, after logging three
\* PROVISION_ERROR events and a PROVISION_ERROR_DETAILS event that carries
\* the error's detail list.
C9_ValidationErrorAborts ==
  LET EventsOf(events, status) == {i \in DOMAIN events : events[i].status = status} IN
  validation.hasError =>
    /\ cpc = "thrown"
    /\ cthrown = NewError(<<"! Error: ">> \o Str(validation.message))
    /\ ccalls[Len(ccalls)] = "deployments.validate"
    /\ "deployments.createOrUpdate" \notin Range(ccalls)
    /\ Cardinality(EventsOf(clog, "PROVISION_ERROR")) = 3
    /\ EventsOf(clog, "PROVISION_ERROR_DETAILS") = {Len(clog)}
    /\ clog[Len(clog)].message = validation.details
C9_Witness ==
  /\ validation.hasError
  /\ validation.details = <<"detail-1", "detail-2">>
  /\ cpc = "thrown"

\* C11: when no outputs were found and every listed operation carries an
\* error object, the PROVISION_ERROR events of the log are, operation by
\* operation in list order, one location-unavailable message naming the
\* resource type for code MissingRegistrationForLocation and otherwise the
\* generic message for the resource type followed by the code and the
\* message; at the return every operation has been reported, once.
C11_FailedOperationsReported ==
  LET ErrorsLogged == SelectSeq(clog, LAMBDA e : e.status = "PROVISION_ERROR")
      Said(op) ==
        IF op.error = "MissingRegistrationForLocation"
        THEN <<Event("PROVISION_ERROR",
                     <<"! Deployment failed for resource of type ">> \o op.resourceType
                       \o <<". This resource is not avaliable in the location provided.">>)>>
        ELSE <<Event("PROVISION_ERROR",
                     <<"! Deployment failed for resource of type ">> \o op.resourceType \o <<".">>),
               Event("PROVISION_ERROR", <<"! Code: ", op.error, ".">>),
               Event("PROVISION_ERROR", <<"! Message: ", "message of ", op.error, ".">>)>>
      UpTo[i \in 0..Len(operations)] ==
        IF i = 0 THEN << >> ELSE UpTo[i - 1] \o Said(operations[i])
  IN (/\ cpc \in {"diagnose", "returned"}
      /\ responses.outputs.fetched /\ ~responses.outputs.present
      /\ Len(operations) > 0
      /\ \A i \in DOMAIN operations :
           operations[i].error \in {"MissingRegistrationForLocation", "Other"})
     => /\ ErrorsLogged = UpTo[opIdx]
        /\ cpc = "returned" => opIdx = Len(operations)
C11_Witness ==
  /\ cpc = "returned"
  /\ ~responses.outputs.present
  /\ Len(operations) = 2
  /\ operations[1] = [error |-> "MissingRegistrationForLocation",
                      resourceType |-> <<"Microsoft.Web/sites">>]
  /\ operations[2] = [error |-> "Other", resourceType |-> <<"Microsoft.Insights/components">>]

\* The external calls of one execution of create, in the order the steps
\* make them: a call is never made before the calls of the steps ahead of
\* it that this execution needs, nor after one of them failed.
C12_CallsInOrder ==
  LET CallOrder == <<"subscriptions.get", "applications.create",
                     "resourceGroups.createOrUpdate", "deployments.validate",
                     "deployments.createOrUpdate", "components.get", "aPIKeys.create",
                     "bots.get", "bots.update", "deployments.get",
                     "deploymentOperations.list">>
      Rank(c) == CHOOSE i \in DOMAIN CallOrder : CallOrder[i] = c
      Called(c) == c \in Range(ccalls)
  IN /\ Range(ccalls) \subseteq Range(CallOrder)
     /\ \A i \in 1..(Len(ccalls) - 1) : Rank(ccalls[i]) < Rank(ccalls[i + 1])
     /\ Called("applications.create") => Truthy(tenantId)
     /\ Called("resourceGroups.createOrUpdate") => Truthy(tenantId) /\ Truthy(appId)
     /\ Called("deployments.validate") => Called("resourceGroups.createOrUpdate")
     /\ Called("deployments.createOrUpdate") =>
          Called("deployments.validate") /\ ~validation.hasError
     /\ Called("components.get") =>
          /\ Called("deployments.createOrUpdate")
          /\ responses.deployment = 200
          /\ cargs.createAppInsights
     /\ Called("aPIKeys.create") => Called("components.get")
     /\ Called("bots.get") => Called("aPIKeys.create")
     /\ Called("bots.update") => Called("bots.get")
     /\ Called("deployments.get") =>
          /\ Called("deployments.createOrUpdate")
          /\ responses.deployment = 200
          /\ cargs.createAppInsights => Called("aPIKeys.create")
     /\ cthrown # NoError <=> cpc = "thrown"
     /\ (~Truthy(config.accessToken) \/ ~Truthy(config.subId)) =>
          /\ ccalls = << >>
          /\ cpc \in {"idle", "tenant", "thrown"}
          /\ cpc = "thrown" => cthrown.kind = "Error"
\* C12: in every execution of create the external steps occur only in the
\* order tenant-id resolution, application registration, resource group,
\* template validation, template create-or-update, telemetry linking (only
\* if requested), outputs fetch, each after the previous one succeeded (a
\* failed execution makes no further call), and create fails before any
\* external call when the access token or the subscription id is absent.
C12_StepsOfCreateInOrder ==
  /\ []C12_CallsInOrder
  /\ [][cpc = "thrown" => cpc' \in {"tenant", "settings"} /\ ccalls' = << >>]_vars
C12_Witness ==
  /\ cpc = "returned"
  /\ ccalls = <<"subscriptions.get", "applications.create",
                "resourceGroups.createOrUpdate", "deployments.validate",
                "deployments.createOrUpdate", "components.get", "aPIKeys.create",
                "bots.get", "bots.update", "deployments.get">>

\* The states of a create without application id and without password: it
\* gets no further than the application-registration step and makes no call
\* but the tenant lookup.
C13_NoCallsWithoutPassword ==
  (~Truthy(projSettings.MicrosoftAppId) /\ ~Truthy(cargs.appPassword)) =>
    /\ cpc \in {"idle", "tenant", "settings", "app", "thrown"}
    /\ Range(ccalls) \subseteq {"subscriptions.get"}
    /\ resourceGroup = Undefined
    /\ ~validation.hasError /\ responses = NoResponses
\* C13: when the settings have no MicrosoftAppId and appPassword is empty,
\* create throws `App password is required`, and in that execution no
\* application registration is created, no resource group is created and no
\* template validation or deployment call is made.
C13_PasswordRequired ==
  /\ []C13_NoCallsWithoutPassword
  /\ [][(cpc = "app" /\ ~Truthy(appId) /\ ~Truthy(cargs.appPassword)) =>
          /\ cpc' = "thrown"
          /\ cthrown' = NewError(<<"App password is required">>)
          /\ ccalls' = ccalls]_vars
C13_Witness ==
  /\ cpc = "thrown"
  /\ cthrown = NewError(<<"App password is required">>)
  /\ ~Truthy(projSettings.MicrosoftAppId) /\ ~Truthy(cargs.appPassword)

\* C14: create aborts at the create-or-update step exactly when the response
\* status is not a success status: with a success status (200 OK, 201
\* Created) the execution does not end in a throw of that step.
C14_AbortsOnlyOnFailureStatus ==
  LET SuccessStatuses == {200, 201} IN
  /\ responses.deployment \in SuccessStatuses =>
       ~(cpc = "thrown" /\ ccalls[Len(ccalls)] = "deployments.createOrUpdate")
  /\ responses.deployment \notin SuccessStatuses \cup {0} =>
       cpc = "thrown" /\ ccalls[Len(ccalls)] = "deployments.createOrUpdate"

\* The states after the bot registration was fetched: without a properties
\* object a PROVISION_WARNING is in the log, no update was sent and create
\* went on to the outputs step; after an update answered with status 400 the
\* log ends with a PROVISION_ERROR and create has thrown.
C15_LinkingOutcomes ==
  LET LastCall == ccalls[Len(ccalls)] IN
  /\ responses.botCreated = "noProperties" =>
       /\ "bots.update" \notin Range(ccalls)
       /\ \E i \in DOMAIN clog : clog[i].status = "PROVISION_WARNING"
       /\ \/ cpc \in {"outputs", "success", "operations", "diagnose", "returned"}
          \/ cpc = "thrown" /\ LastCall \in {"deployments.get", "deploymentOperations.list"}
  /\ responses.botUpdateResult = 400 =>
       /\ cpc = "thrown"
       /\ LastCall = "bots.update"
       /\ cthrown = NewError(<<"Linking Application Insights Failed.">>)
       /\ clog[Len(clog)].status = "PROVISION_ERROR"
  /\ \A i \in DOMAIN ccalls :
       ccalls[i] \notin {"resourceGroups.deleteMethod", "deployments.deleteMethod",
                         "applications.deleteMethod", "bots.deleteMethod"}
\* C15: in the telemetry-linking step, a bot registration without properties
\* gives a PROVISION_WARNING, no bot update, and create continues to the
\* outputs step; a bot update with a non-success status gives a
\* PROVISION_ERROR and create throws; in neither case is anything created
\* before deleted (the step only adds the bot service calls).
C15_TelemetryLinking ==
  /\ []C15_LinkingOutcomes
  /\ [][cpc = "bot" =>
          /\ ccalls' \in {ccalls \o <<"bots.get">>, ccalls \o <<"bots.get", "bots.update">>}
          /\ UNCHANGED <<resourceGroup, appId, tenantId, templateParam>>]_vars
C15_Witness ==
  /\ responses.botCreated = "noProperties"
  /\ cpc = "returned"
  /\ ~result.isNull

\* C16: when deployment outputs are present, the record create returns maps
\* the key of every output entry {value: v} to v, whatever v is (the empty
\* string too), and has MicrosoftAppId and MicrosoftAppPassword.
C16_EveryOutputUnwrapped ==
  (responses.outputs.present /\ ~result.isNull) =>
    /\ \A k \in DOMAIN responses.outputs.value :
         /\ k \in DOMAIN result.value
         /\ result.value[k] = responses.outputs.value[k].value
    /\ {"MicrosoftAppId", "MicrosoftAppPassword"} \subseteq DOMAIN result.value

\* C17: after a create that returns a settings record, the settings file at
\* settingsPath contains that record.
C17_ResultPersisted ==
  (cpc = "returned" /\ ~result.isNull) =>
    \A k \in DOMAIN result.value : Get(projSettings, k) = result.value[k]

\* C18: when the outputs fetch of create returns no outputs, create does not
\* throw (unless the listing call itself is rejected): it lists the
\* deployment operations, logs the diagnosis and returns no result; a record
\* is returned only when outputs are present.
C18_NoOutputsReturnsNothing ==
  /\ (responses.outputs.fetched /\ ~responses.outputs.present) =>
       /\ result.isNull
       /\ cpc = "thrown" => cthrown = StepError("deploymentOperations.list")
       /\ cpc = "returned" => "deploymentOperations.list" \in Range(ccalls)
  /\ ~result.isNull => responses.outputs.present

(***************************************************************************)
(* Properties of deployZip.                                                *)
(***************************************************************************)
\* C19: deployZip posts to host `hostname` when a non-empty hostname is
\* given and to `{name}-{env}` otherwise; when the upload fails with status
\* 403 it throws a new token-expired error, when it fails with any other
\* error it rethrows that error, and it logs the response only on success.
C19_DeployZip ==
  LET Retrieve == {i \in DOMAIN log : log[i].message = <<"Retrieve publishing details ...">>}
      ResponseLogged == \E r \in Retrieve : r < Len(log) /\ log[r + 1].message = <<"response">>
  IN "Upload" \in Range(steps) =>
       /\ uploadHost = IF args.hostname \notin {Undefined, << >>}
                       THEN args.hostname
                       ELSE args.name \o <<"-">> \o args.environment
       /\ Cardinality(Retrieve) = 1
       /\ uploadErr = NoError => pc = "returned" /\ exc = NoError /\ ResponseLogged
       /\ uploadErr # NoError =>
            /\ pc \in {"catch", "thrown"}
            /\ ~ResponseLogged
            /\ IF uploadErr.kind = "StatusCodeError" /\ uploadErr.statusCode = 403
               THEN exc = TokenExpired /\ exc # uploadErr
               ELSE exc = uploadErr
C19_Witness ==
  /\ pc = "thrown"
  /\ uploadErr = HttpError(403, NoBody)
  /\ thrown = TokenExpired
  /\ uploadHost = <<"myhost">>

(***************************************************************************)
(* Properties of create and deploy together.                               *)
(***************************************************************************)
\* C20, as claimed: the resource group create creates and the site deploy
\* uploads to are both named `{name}-{environment}` in every call.
C20_SameDerivedName ==
  /\ resourceGroup # Undefined =>
       resourceGroup = cargs.name \o <<"-">> \o cargs.environment
  /\ uploadHost # Undefined =>
       uploadHost = args.name \o <<"-">> \o args.environment
\* C20, as amended: the resource group create creates is always named
\* `{name}-{environment}`; the site deploy uploads to has that same name
\* whenever deploy is called without a hostname, and is the hostname when a
\* non-empty one is given.
C20_DerivedNameUnlessHostname ==
  /\ resourceGroup # Undefined =>
       resourceGroup = cargs.name \o <<"-">> \o cargs.environment
  /\ uploadHost # Undefined =>
       IF args.hostname \in {Undefined, << >>}
       THEN uploadHost = args.name \o <<"-">> \o args.environment
       ELSE uploadHost = args.hostname
  /\ (/\ resourceGroup # Undefined /\ uploadHost # Undefined
      /\ args.name = cargs.name /\ args.environment = cargs.environment
      /\ args.hostname \in {Undefined, << >>}) => uploadHost = resourceGroup
C20_Witness ==
  /\ cpc = "returned" /\ pc = "returned"
  /\ resourceGroup = <<"mybot", "-", "dev">>
  /\ uploadHost = <<"mybot", "-", "dev">>

(***************************************************************************)
(* Properties of the instance fields and of create's exception policy.     *)
(***************************************************************************)
\* C21: no invocation changes a field of the instance, so the tenantId field
\* keeps its constructed value '' and every create that gets past its first
\* step has performed the tenant-id lookup (subscriptions.get is its first
\* call).
C21_InstanceUnchanged ==
  /\ tenantId = << >>
  /\ cpc \notin {"idle", "tenant", "thrown"} =>
       Len(ccalls) > 0 /\ ccalls[1] = "subscriptions.get"

\* C22: whenever create ends by an exception, an error event has been sent to
\* the logger before the exception reaches the caller.
C22_CreateLogsException ==
  cpc = "thrown" =>
    /\ cthrown # NoError
    /\ \E i \in DOMAIN clog :
         clog[i].status \in {"PROVISION_ERROR", "PROVISION_ERROR_DETAILS"}

(***************************************************************************)
(* Termination of the packager.                                            *)
(***************************************************************************)
\* C23: every invocation of zipDirectory eventually settles: once deploy has
\* called it, deploy eventually goes on to the upload (resolved) or to its
\* catch block (rejected).
C23_PackagerSettles ==
  (pc = "zip_glob") ~> (pc \in {"upload", "catch"})

(***************************************************************************)
(* The account assignment of publishLuis.                                  *)
(***************************************************************************)
\* C24: when the assignment POST for an application id throws, publishLuis
\* lets that error through as it is (deploy's catch block receives it), makes
\* no POST for the remaining application ids and no other call, leaves the
\* answered assignments as they are and does not log `Luis Publish Success`.
\* An assignment is answered when its `Assigning` event is followed by the
\* event of its response.
C24_FailedAssignmentInvariant ==
  LET IsAssigning(e) == /\ e.status = "DEPLOY_INFO"
                        /\ IsPrefix(<<"Assigning to luis app id: ">>, e.message)
      Answered == {i \in 1..(Len(log) - 1) :
                     IsAssigning(log[i]) /\ log[i + 1] = Info(<<"response">>)}
      Failed == Len(posts) > Cardinality(Answered)
  IN  /\ Len(posts) \in {Cardinality(Answered), Cardinality(Answered) + 1}
      /\ Failed =>
           /\ pc \in {"catch", "thrown"}
           /\ exc = HttpError(500, NoBody)
           /\ luisCalls[Len(luisCalls)] = "azureaccounts.post"
           /\ Info(<<"Luis Publish Success! ...">>) \notin Range(log)
           /\ "LuisPublish" \notin Range(done)
C24_AssignmentFailurePropagates ==
  /\ []C24_FailedAssignmentInvariant
  /\ [][\/ pc' = "clean"
        \/ /\ Len(posts') >= Len(posts)
           /\ SubSeq(posts', 1, Len(posts)) = posts
           /\ (pc \in {"catch", "thrown"} => posts' = posts /\ luisCalls' = luisCalls)]_vars
C24_Witness ==
  /\ pc = "catch"
  /\ exc = HttpError(500, NoBody)
  /\ Len(posts) = 2
  /\ posts[1].appId # posts[2].appId
  /\ Len(SelectSeq(log, LAMBDA e : e = Info(<<"response">>))) = 1

(***************************************************************************)
(* The runtime templates.                                                  *)
(***************************************************************************)
\* C25: for the C# and the JS runtime template alike, once buildDeploy has
\* returned, the path it returned is a directory the build wrote and that
\* directory contains a `ComposerDialogs` subfolder.
C25_BuildOutputHasDialogs ==
  "ExternalBuild" \in Range(done) =>
    /\ pathToArtifacts \in published
    /\ PathJoin(pathToArtifacts, <<"ComposerDialogs">>) \in published

(***************************************************************************)
(* Failures of create after the resource group exists.                     *)
(***************************************************************************)
\* C26: whenever create throws after the resource group has been created
\* (the validation call is made only then), create has made no call that
\* deletes a resource and has logged the event that tells how to delete the
\* group `{name}-{environment}`.
C26_DeleteHintBeforeFailure ==
  (cpc = "thrown" /\ "deployments.validate" \in Range(ccalls)) =>
    /\ \A i \in DOMAIN ccalls :
         ccalls[i] \in {"subscriptions.get", "applications.create",
                        "resourceGroups.createOrUpdate", "deployments.validate",
                        "deployments.createOrUpdate", "bots.get", "deployments.get",
                        "deploymentOperations.list"}
    /\ \E i \in DOMAIN clog :
         clog[i].message = DeleteHint(cargs.name \o <<"-">> \o cargs.environment)

(***************************************************************************)
(* The deployment-settings file written by publishLuis.                    *)
(***************************************************************************)
\* C27: after publishLuis has written the deployment-settings file, the luis
\* record of the file holds the endpoint (the region-derived URL when none
\* was supplied), the endpoint key, the authoring region and the authoring
\* key that deploy supplied, and the other top-level fields of the file are
\* those it had.
C27_WrittenLuisRecord ==
  "writeJson" \in Range(luisCalls) =>
    /\ Get(buildSettings.luis, "endpoint") =
         DefaultEndpoint(LuisEndpointSetting(projSettings), LuisAuthoringRegion(projSettings))
    /\ Get(buildSettings.luis, "endpointKey") = LuisEndpointKey(projSettings)
    /\ Get(buildSettings.luis, "authoringRegion") = LuisAuthoringRegion(projSettings)
    /\ Get(buildSettings.luis, "authoringKey") = LuisAuthoringKey(projSettings)
    /\ [buildSettings EXCEPT !.luis = EmptyObject, !.hasLuis = TRUE]
         = [projSettings EXCEPT !.luis = EmptyObject, !.hasLuis = TRUE]

(***************************************************************************)
(* The CardTemplate component.                                             *)
(***************************************************************************)
\* C28: CardTemplate always renders the header first, then the body slot.
\* With exactly one of body and footer present (neither null nor undefined)
\* the body slot shows that one and neither separator nor footer slot is
\* rendered; the separator and the footer slot are rendered if and only if
\* both are present, and then the body slot shows body and the footer slot
\* shows footer.
C28_CardSlots ==
  LET Present(x) == x # Undefined /\ x # JsNull
      Classes == [i \in DOMAIN view |-> view[i].className]
  IN  view # NotRendered =>
        /\ view[1] = [className |-> "CardNode__Header", children |-> props.header]
        /\ view[2].className = "CardNode__Body"
        /\ (Present(props.body) /\ ~Present(props.footer)) =>
             /\ Classes = <<"CardNode__Header", "CardNode__Body">>
             /\ view[2].children = props.body
        /\ (~Present(props.body) /\ Present(props.footer)) =>
             /\ Classes = <<"CardNode__Header", "CardNode__Body">>
             /\ view[2].children = props.footer
        /\ ("Separator" \in Range(Classes)) <=> (Present(props.body) /\ Present(props.footer))
        /\ ("CardNode__Footer" \in Range(Classes)) <=>
             (Present(props.body) /\ Present(props.footer))
        /\ (Present(props.body) /\ Present(props.footer)) =>
             /\ Classes = <<"CardNode__Header", "CardNode__Body", "Separator",
                            "CardNode__Footer">>
             /\ view[2].children = props.body
             /\ view[4].children = props.footer
\* a card given a null body and a footer, rendered after an earlier render
C28_Witness ==
  /\ props.body = JsNull
  /\ props.footer = <<"text">>
  /\ view = <<renderHeader(props.header), renderBody(<<"text">>)>>

(***************************************************************************)
(* The body of the account assignments.                                    *)
(***************************************************************************)
\* C29: every assignment POST of publishLuis carries an account of the
\* retrieved list whose AccountName is the target name (luisResource if
\* given, else `{name}-{environment}-luis`); no POST is made with a missing
\* account.
C29_PostsCarryNamedAccount ==
  \A i \in DOMAIN posts :
    /\ posts[i].body # UndefinedAccount
    /\ posts[i].body.AccountName =
         LuisAccountName(args.name, args.environment, args.luisResource)
    /\ pc = "luis_assign" => posts[i].body \in Range(accountList)

(***************************************************************************)
(* The diagnostic pass of create.                                          *)
(***************************************************************************)
\* C30: for every listed deployment-operations list, also with operations
\* that have no properties or whose statusMessage.error is undefined, the
\* diagnostic pass does not throw, logs a failure report for no more
\* operations than carry an error, for exactly those once create has
\* returned, and create returns its no-result value.
C30_DiagnosisReportsOnlyErrors ==
  LET Reports == SelectSeq(clog, LAMBDA e :
                   IsPrefix(<<"! Deployment failed for resource of type ">>, e.message))
      WithError == SelectSeq(operations, LAMBDA o :
                     o.error \in {"MissingRegistrationForLocation", "Other"})
  IN  (/\ responses.outputs.fetched /\ ~responses.outputs.present
       /\ Len(operations) > 0)
      => /\ cpc # "thrown"
         /\ Len(Reports) <= Len(WithError)
         /\ cpc = "returned" => Len(Reports) = Len(WithError) /\ result.isNull

(***************************************************************************)
(* The closing event of create.                                            *)
(***************************************************************************)
\* C31: a PROVISION_SUCCESS event is in the log of create only when create
\* returns a settings record (not its no-result value); an execution that
\* found no deployment outputs and logged PROVISION_ERROR diagnostics has no
\* PROVISION_SUCCESS event.
C31_SuccessEventOnlyWithResult ==
  (\E i \in DOMAIN clog : clog[i].status = "PROVISION_SUCCESS") =>
    /\ cpc = "returned"
    /\ ~result.isNull
    /\ responses.outputs.present
    /\ \A i \in DOMAIN clog : clog[i].status # "PROVISION_ERROR"

(***************************************************************************)
(* Properties of eject.                                                    *)
(***************************************************************************)
\* C32, as claimed: in any sequence of eject calls on one project, no call
\* but the first one succeeds.
C32_OnlyFirstEjectSucceeds ==
  \A i \in DOMAIN ejects : i > 1 => ejects[i].outcome = "thrown"
\* what one eject call does, for either template: when the destination
\* exists it throws `Runtime already exists at <destPath>` and leaves the
\* files as they are; when it returns, it returns destPath and the
\* destination exists
C32_EjectCall ==
  ejects' # ejects =>
    LET call == ejects'[Len(ejects')] IN
      /\ ejects' = Append(ejects, call)
      /\ DestPath \in projFiles =>
           /\ call = [outcome |-> "thrown",
                      value |-> <<"Runtime already exists at ", "project", "/", "runtime">>]
           /\ projFiles' = projFiles
      /\ call.outcome = "returned" =>
           /\ call.value = <<"project", "/", "runtime">>
           /\ DestPath \notin projFiles
           /\ DestPath \in projFiles'
\* C32, as amended: for both runtime templates, eject on a project whose
\* `runtime` destination already exists throws `Runtime already exists at
\* <destPath>` without copying or removing anything; hence every eject call
\* made after one that succeeded (or that created the destination) fails
\* leaving the project's files unchanged, and at most one call of a sequence
\* succeeds.
C32_EjectOnce ==
  /\ [](/\ Cardinality({i \in DOMAIN ejects : ejects[i].outcome = "returned"}) <= 1
        /\ \A i, j \in DOMAIN ejects :
             (i < j /\ ejects[i].outcome = "returned") =>
               ejects[j] = [outcome |-> "thrown", value |-> AlreadyExists.msg]
        /\ (\E i \in DOMAIN ejects : ejects[i].outcome = "returned") => DestPath \in projFiles)
  /\ [][C32_EjectCall]_vars
\* a second call that fails after the first one succeeded, for the C# template
C32_Witness ==
  /\ runtime = "csharp-azurewebapp"
  /\ Len(ejects) = 2
  /\ ejects[1] = [outcome |-> "returned", value |-> <<"project", "/", "runtime">>]
  /\ ejects[2] = [outcome |-> "thrown",
                  value |-> <<"Runtime already exists at ", "project", "/", "runtime">>]
  /\ SchemaFolderInRuntime \notin projFiles
  /\ PathJoin(SchemaDstPath, <<"sdk.schema">>) \in projFiles

====
